---- MODULE Spec2Model ----
(***************************************************************************)
(* A model of appgym's web environment (src/appgym/web_env.py):            *)
(* CoverageReporter, and WebEnv with reset/step, the click grid, the       *)
(* screenshot crop and the selector script of _elements.                   *)
(*                                                                         *)
(* Lengths (the fields of a Rect) are integers counting 1/SubPixel of a    *)
(* pixel, so that a fractional getBoundingClientRect value is a value of   *)
(* the model.  A coverage ratio r is the integer r * Scale, where Scale is *)
(* a common multiple of every statement total of the model, so that        *)
(* 1.0 - n/s is exact.                                                     *)
(***************************************************************************)
EXTENDS Integers, Sequences, FiniteSets, TLC

VARIABLES
    attrs,      \* the instance attributes of the WebEnv that exist
    viewport,   \* self.viewport (meaningful when "viewport" \in attrs)
    coverage,   \* self.coverage (meaningful when "coverage" \in attrs)
    covMap,     \* window.__coverage__ as last read from the page
    shot,       \* <<height, width>> in pixels of the raw screenshot, and
    dom,        \* the document, that the last call that returned has seen
    ret,        \* what the last call returned or raised
    hist        \* the session's books: whether a reset() has returned, whether
                \* the last reset() did (clean), the action set it returned,
                \* and its baseline plus the rewards returned since (kept up
                \* to the first call that leaves it unequal to self.coverage)

vars == <<attrs, viewport, coverage, covMap, shot, dom, ret, hist>>

-----------------------------------------------------------------------------
(* Bounds and program constants *)

CELL_SIZE == 20

SubPixel == 2

MaxFiles == 2

MaxStmts == 2

MaxCount == 2

MaxCells == 2

MaxNodes == 4

MaxEnvStmts == 2

-----------------------------------------------------------------------------
(* Arithmetic helpers *)

Min(a, b) == IF a <= b THEN a ELSE b

Max(a, b) == IF a >= b THEN a ELSE b

\* Python's int() of the quotient n/d of a float division, d > 0:
\* truncation toward zero.
Trunc(n, d) == IF n >= 0 THEN n \div d ELSE -((-n) \div d)

RECURSIVE Gcd(_, _)
Gcd(a, b) == IF b = 0 THEN a ELSE Gcd(b, a % b)

RECURSIVE LcmUpTo(_)
LcmUpTo(n) == IF n <= 1 THEN 1
              ELSE LET l == LcmUpTo(n - 1) IN (l * n) \div Gcd(l, n)

\* The integer that stands for the ratio 1.0.
Scale == LcmUpTo(Max(MaxFiles * MaxStmts, MaxEnvStmts))

RECURSIVE SumSeq(_)
SumSeq(s) == IF s = <<>> THEN 0 ELSE Head(s) + SumSeq(Tail(s))

-----------------------------------------------------------------------------
(* CoverageReporter *)

\* A coverage map: a sequence of files (the dict's values), each the
\* sequence of the execution counts of v['s'].
SeqsUpTo(S, n) == UNION {[1..k -> S] : k \in 0..n}

StmtMaps == SeqsUpTo(0..MaxCount, MaxStmts)

CoverageMaps == SeqsUpTo(StmtMaps, MaxFiles)

\* A _file_summary that counts the statements that ran instead of cnt[0].
_file_summaryCovered(statement_coverage) ==
    <<Cardinality({i \in DOMAIN statement_coverage :
                      statement_coverage[i] # 0}),
      Len(statement_coverage)>>

\* _file_summary: (cnt[0], sum(cnt.values()))
_file_summary(statement_coverage) ==
    LET not_covered == Cardinality({i \in DOMAIN statement_coverage :
                                        statement_coverage[i] = 0})
        stmts == Len(statement_coverage)
    IN  <<not_covered, stmts>>

\* A summary that guards the division and answers 0.0 for no statements.
summaryZeroOnEmpty(coverage_data) ==
    LET not_covered == SumSeq([i \in DOMAIN coverage_data |->
                                  _file_summary(coverage_data[i])[1]])
        stmts == SumSeq([i \in DOMAIN coverage_data |->
                            _file_summary(coverage_data[i])[2]])
    IN  [ok |-> TRUE, error |-> "",
         value |-> IF stmts = 0 THEN 0
                   ELSE Scale - ((not_covered * Scale) \div stmts)]

\* summary: 1.0 - (not_covered / stmts); the division raises
\* ZeroDivisionError when stmts = 0.
summary(coverage_data) ==
    LET cov == [i \in DOMAIN coverage_data |-> _file_summary(coverage_data[i])]
        not_covered == SumSeq([i \in DOMAIN cov |-> cov[i][1]])
        stmts == SumSeq([i \in DOMAIN cov |-> cov[i][2]])
    IN  IF stmts = 0
        THEN [ok |-> FALSE, error |-> "ZeroDivisionError", value |-> 0]
        ELSE [ok |-> TRUE, error |-> "",
              value |-> Scale - ((not_covered * Scale) \div stmts)]

-----------------------------------------------------------------------------
(* Rect, Action and the click grid *)

Rect(x, y, width, height) ==
    [x |-> x, y |-> y, width |-> width, height |-> height]

ZeroRect == Rect(0, 0, 0, 0)

\* Action(x, y, type='click'); x and y are whole pixels.
Action(x, y) == [x |-> x, y |-> y, type |-> "click"]

\* A cell's far corner instead of its centre.
CellCentreCorner(c) == c * CELL_SIZE

\* int(c * CELL_SIZE - (CELL_SIZE / 2))
CellCentre(c) == Trunc(2 * c * CELL_SIZE - CELL_SIZE, 2)

\* The list comprehension of _actions from cell (cx, cy) onwards:
\* for cy in range(1, ch + 1) for cx in range(1, cw + 1).
RECURSIVE GridFrom(_, _, _, _)
GridFrom(cy, cx, cw, ch) ==
    IF cy > ch THEN <<>>
    ELSE IF cx > cw THEN GridFrom(cy + 1, 1, cw, ch)
    ELSE <<Action(CellCentre(cx), CellCentre(cy))>>
            \o GridFrom(cy, cx + 1, cw, ch)

_actions(v) ==
    LET w  == v.width
        h  == v.height
        cw == Trunc(w, CELL_SIZE * SubPixel)
        ch == Trunc(h, CELL_SIZE * SubPixel)
    IN  GridFrom(1, 1, cw, ch)

-----------------------------------------------------------------------------
(* The screenshot crop *)

\* A length is a Python int when it is a whole number of pixels (the driver
\* decodes a JSON number without a fraction as an int), else a float.
IsInt(q) == q % SubPixel = 0

Px(q) == q \div SubPixel

\* A slice bound i on an axis of length L: a negative bound counts from the
\* end, and every bound is clipped to 0..L.
SliceBound(i, L) == IF i < 0 THEN Max(i + L, 0) ELSE Min(i, L)

SliceLen(start, stop, L) == Max(SliceBound(stop, L) - SliceBound(start, L), 0)

\* img[v.y : v.y + v.height, v.x : v.x + v.width] on an image of raw[1] rows
\* and raw[2] columns: a float slice index raises TypeError.
Crop(v, raw) ==
    IF ~(IsInt(v.y) /\ IsInt(v.height) /\ IsInt(v.x) /\ IsInt(v.width))
    THEN [ok |-> FALSE, error |-> "TypeError", value |-> <<0, 0>>]
    ELSE [ok |-> TRUE, error |-> "",
          value |-> <<SliceLen(Px(v.y), Px(v.y) + Px(v.height), raw[1]),
                      SliceLen(Px(v.x), Px(v.x) + Px(v.width), raw[2])>>]

\* _screenshot: page.screenshot() may fail in the driver, then the crop.
_screenshot(v, raw, driverOk) ==
    IF ~driverOk
    THEN [ok |-> FALSE, error |-> "DriverError", value |-> <<0, 0>>]
    ELSE Crop(v, raw)

-----------------------------------------------------------------------------
(* The document and the selector script of _elements *)

\* A document has the elements 1..n; element 1 is the documentElement, whose
\* parentNode is the document (0), and every other element has a parent of a
\* smaller number.  The children of one parent are ordered by their number.
\* root is the element the configured content selector resolves to (0: it
\* matches nothing).
Lower(tag) == CASE tag = "HTML" -> "html"
                [] tag = "DIV"  -> "div"
                [] tag = "SPAN" -> "span"

Tags == {"DIV", "SPAN"}

Ids == {"", "a", "b"}

Boxes == {ZeroRect, Rect(0, 0, SubPixel, SubPixel)}

Parents(k) == {p \in [1..k -> 0..(k - 1)] :
                  /\ p[1] = 0
                  /\ \A m \in 2..k : p[m] >= 1 /\ p[m] < m}

TagMaps(k) == {t \in [1..k -> Tags \cup {"HTML"}] :
                  /\ t[1] = "HTML"
                  /\ \A m \in 2..k : t[m] \in Tags}

\* The documents of k elements; the elements of one document have one
\* bounding box.
DomsOfSize(k) ==
    [n : {k}, parent : Parents(k), tag : TagMaps(k), id : [1..k -> Ids],
     box : {[m \in 1..k |-> b] : b \in Boxes}, root : 0..Min(k, 2)]

previousElementSibling(d, e) ==
    LET S == {m \in 1..d.n : d.parent[m] = d.parent[e] /\ m < e}
    IN  IF S = {} THEN 0 ELSE CHOOSE m \in S : \A k \in S : k <= m

\* A sibling count whose loop never runs.
CountSiblingsOnce(d, e, c) == c

\* for (var c=1,e=el;e.previousElementSibling;e=e.previousElementSibling,c++);
RECURSIVE CountSiblings(_, _, _)
CountSiblings(d, e, c) ==
    IF previousElementSibling(d, e) = 0 THEN c
    ELSE CountSiblings(d, previousElementSibling(d, e), c + 1)

\* A fullPath that prepends the id and goes on to the parent.
RECURSIVE fullPathLoopThroughIds(_, _, _)
fullPathLoopThroughIds(d, el, names) ==
    IF el = 0 THEN names
    ELSE IF d.id[el] # ""
         THEN fullPathLoopThroughIds(d, d.parent[el],
                                     <<"#" \o d.id[el]>> \o names)
    ELSE IF el = 1
         THEN fullPathLoopThroughIds(d, d.parent[el],
                                     <<Lower(d.tag[el])>> \o names)
         ELSE fullPathLoopThroughIds(d, d.parent[el],
                  <<Lower(d.tag[el]) \o ":nth-child("
                        \o ToString(CountSiblings(d, el, 1)) \o ")">> \o names)

\* The while loop of fullPath; el = 0 is the document, whose parentNode is
\* null.
RECURSIVE fullPathLoop(_, _, _)
fullPathLoop(d, el, names) ==
    IF el = 0 THEN names
    ELSE IF d.id[el] # "" THEN <<"#" \o d.id[el]>> \o names
    ELSE IF el = 1
         THEN fullPathLoop(d, d.parent[el], <<Lower(d.tag[el])>> \o names)
         ELSE fullPathLoop(d, d.parent[el],
                  <<Lower(d.tag[el]) \o ":nth-child("
                        \o ToString(CountSiblings(d, el, 1)) \o ")">> \o names)

\* names.join(" > ")
RECURSIVE Join(_)
Join(names) == IF names = <<>> THEN ""
               ELSE IF Len(names) = 1 THEN names[1]
               ELSE names[1] \o " > " \o Join(Tail(names))

fullPath(d, el) == Join(fullPathLoop(d, el, <<>>))

\* root.querySelectorAll("*"): the descendants of p in document order, from
\* candidate k onwards.
RECURSIVE querySelectorAll(_, _, _)
querySelectorAll(d, p, k) ==
    IF k > d.n THEN <<>>
    ELSE IF d.parent[k] = p
         THEN <<k>> \o querySelectorAll(d, k, k + 1)
                    \o querySelectorAll(d, p, k + 1)
         ELSE querySelectorAll(d, p, k + 1)

Element(d, e) == [tag |-> Lower(d.tag[e]),
                  selector |-> fullPath(d, e),
                  bounding_box |-> d.box[e]]

\* _elements: the script fails when the driver fails or the content
\* selector matches nothing (root is null).
_elements(d, driverOk) ==
    IF ~driverOk \/ d.root = 0
    THEN [ok |-> FALSE, error |-> "DriverError", value |-> <<>>]
    ELSE LET nodes == querySelectorAll(d, d.root, d.root + 1)
         IN  [ok |-> TRUE, error |-> "",
              value |-> [i \in DOMAIN nodes |-> Element(d, nodes[i])]]

-----------------------------------------------------------------------------
(* WebEnv: reset and step *)

\* The environment's own fields, as one value.
Self == [attrs |-> attrs, viewport |-> viewport, coverage |-> coverage]

NoRet == [op |-> "none", outcome |-> "none", error |-> "", value |-> 0,
          measured |-> FALSE, clicked |-> FALSE, click |-> <<0, 0>>,
          reward |-> 0, actions |-> <<>>, image |-> <<0, 0>>,
          elements |-> <<>>]

\* What the browser and the page may answer to one call.
Cell == CELL_SIZE * SubPixel

EnvViewports == {ZeroRect,
                 Rect(SubPixel, 0, 2 * Cell, Cell),
                 Rect(0, 0, Cell + 1, Cell)}

EnvShots == {<<CELL_SIZE, CELL_SIZE>>, <<2 * CELL_SIZE, 2 * CELL_SIZE + 1>>}

\* No file, or one file of z statements never run followed by c statements
\* run once.
EnvCovMaps == {<<>>} \cup
              {<<[i \in 1..(p[1] + p[2]) |-> IF i <= p[1] THEN 0 ELSE 1]>> :
                  p \in {q \in (0..MaxEnvStmts) \X (0..MaxEnvStmts) :
                            q[1] + q[2] <= MaxEnvStmts}}

\* <html><div id="a"></div></html>, with a content selector that resolves to
\* the documentElement or to nothing.
EnvDoms == {[n |-> 2, parent |-> <<0, 1>>, tag |-> <<"HTML", "DIV">>,
             id |-> <<"", "a">>, box |-> <<ZeroRect, ZeroRect>>,
             root |-> r] : r \in {0, 1}}

ResetFailures == {"none", "launch", "newPage", "goto", "viewport",
                  "coverage", "screenshot", "elements"}

StepFailures == {"none", "click", "coverage", "screenshot", "elements"}

StepActions == {Action(CellCentre(1), CellCentre(1)),
                Action(CellCentre(2), CellCentre(1))}

\* _coverage: evaluate window.__coverage__ in the page, then summary().
_coverage(cm, driverOk) ==
    IF ~driverOk
    THEN [ok |-> FALSE, error |-> "DriverError", value |-> 0]
    ELSE summary(cm)

\* _viewport: the script fails when the driver fails or the content selector
\* matches nothing; else it is the bounding box b of the content root.
_viewport(d, b, driverOk) ==
    IF ~driverOk \/ d.root = 0
    THEN [ok |-> FALSE, error |-> "DriverError", value |-> ZeroRect]
    ELSE [ok |-> TRUE, error |-> "", value |-> b]

\* _state: State(image=self._screenshot(), elements=self._elements()), the
\* screenshot first.
_state(v, io) ==
    LET img == _screenshot(v, io.shot, io.failAt # "screenshot")
        els == _elements(io.dom, io.failAt # "elements")
    IN  IF ~img.ok THEN [ok |-> FALSE, error |-> img.error,
                         image |-> <<0, 0>>, elements |-> <<>>]
        ELSE IF ~els.ok THEN [ok |-> FALSE, error |-> els.error,
                              image |-> <<0, 0>>, elements |-> <<>>]
        ELSE [ok |-> TRUE, error |-> "",
              image |-> img.value, elements |-> els.value]

\* reset(): the fields it leaves and what it returns or raises, when the
\* browser and the page answer io.
ResetOutcome(self, io) ==
    LET raise(s, err, m) ==
            [self |-> s,
             ret |-> [NoRet EXCEPT !.op = "reset", !.outcome = "raise",
                                   !.error = err, !.measured = m]]
        s1 == [self EXCEPT !.attrs = @ \cup {"browser"}]
        s2 == [s1 EXCEPT !.attrs = @ \cup {"page"}]
        vp == _viewport(io.dom, io.viewport, io.failAt # "viewport")
        s3 == [s2 EXCEPT !.attrs = @ \cup {"viewport"}, !.viewport = vp.value]
        cv == _coverage(io.covMap, io.failAt # "coverage")
        s4 == [s3 EXCEPT !.attrs = @ \cup {"coverage"}, !.coverage = cv.value]
        st == _state(s4.viewport, io)
    IN  IF io.failAt = "launch" THEN raise(self, "DriverError", FALSE)
        ELSE IF io.failAt = "newPage" THEN raise(s1, "DriverError", FALSE)
        ELSE IF io.failAt = "goto" THEN raise(s2, "DriverError", FALSE)
        ELSE IF ~vp.ok THEN raise(s2, vp.error, FALSE)
        ELSE IF ~cv.ok THEN raise(s3, cv.error, io.failAt # "coverage")
        ELSE IF ~st.ok THEN raise(s4, st.error, TRUE)
        ELSE [self |-> s4,
              ret |-> [NoRet EXCEPT !.op = "reset", !.outcome = "return",
                                    !.measured = TRUE,
                                    !.actions = _actions(s4.viewport),
                                    !.image = st.image,
                                    !.elements = st.elements]]

\* A reward clamped at zero.
step_rewardClamped(new_coverage, old_coverage) ==
    Max(new_coverage - old_coverage, 0)

\* reward = new_coverage - old_coverage
step_reward(new_coverage, old_coverage) == new_coverage - old_coverage

\* A step that measures the viewport again (the bounding box of the content
\* root) before it builds the state.
StepOutcomeRemeasures(self, action, io) ==
    LET v == self.viewport
        at == <<v.x + action.x * SubPixel, v.y + action.y * SubPixel>>
        raise(s, err, c, m) ==
            [self |-> s,
             ret |-> [NoRet EXCEPT !.op = "step", !.outcome = "raise",
                                   !.error = err, !.measured = m,
                                   !.clicked = c,
                                   !.click = IF c THEN at ELSE <<0, 0>>]]
        cv == _coverage(io.covMap, io.failAt # "coverage")
        s1 == [self EXCEPT !.coverage = cv.value,
                           !.viewport = IF io.dom.root = 0 THEN v
                                        ELSE io.dom.box[io.dom.root]]
        st == _state(s1.viewport, io)
    IN  IF "page" \notin self.attrs \/ "viewport" \notin self.attrs
        THEN raise(self, "AttributeError", FALSE, FALSE)
        ELSE IF io.failAt = "click"
        THEN raise(self, "DriverError", FALSE, FALSE)
        ELSE IF "coverage" \notin self.attrs
        THEN raise(self, "AttributeError", TRUE, FALSE)
        ELSE IF ~cv.ok
        THEN raise(self, cv.error, TRUE, io.failAt # "coverage")
        ELSE IF ~st.ok THEN raise(s1, st.error, TRUE, TRUE)
        ELSE [self |-> s1,
              ret |-> [NoRet EXCEPT !.op = "step", !.outcome = "return",
                                    !.measured = TRUE, !.clicked = TRUE,
                                    !.click = at,
                                    !.reward = cv.value - self.coverage,
                                    !.actions = _actions(s1.viewport),
                                    !.image = st.image,
                                    !.elements = st.elements]]

\* step(action): the fields it leaves and what it returns or raises, when
\* the browser and the page answer io.
StepOutcome(self, action, io) ==
    LET v == self.viewport
        at == <<v.x + action.x * SubPixel, v.y + action.y * SubPixel>>
        raise(s, err, c, m) ==
            [self |-> s,
             ret |-> [NoRet EXCEPT !.op = "step", !.outcome = "raise",
                                   !.error = err, !.measured = m,
                                   !.clicked = c,
                                   !.click = IF c THEN at ELSE <<0, 0>>]]
        old_coverage == self.coverage
        cv == _coverage(io.covMap, io.failAt # "coverage")
        new_coverage == cv.value
        reward == step_reward(new_coverage, old_coverage)
        s1 == [self EXCEPT !.coverage = new_coverage]
        st == _state(s1.viewport, io)
    IN  IF "page" \notin self.attrs
        THEN raise(self, "AttributeError", FALSE, FALSE)
        ELSE IF "viewport" \notin self.attrs
        THEN raise(self, "AttributeError", FALSE, FALSE)
        ELSE IF io.failAt = "click"
        THEN raise(self, "DriverError", FALSE, FALSE)
        ELSE IF "coverage" \notin self.attrs
        THEN raise(self, "AttributeError", TRUE, FALSE)
        ELSE IF ~cv.ok
        THEN raise(self, cv.error, TRUE, io.failAt # "coverage")
        ELSE IF ~st.ok THEN raise(s1, st.error, TRUE, TRUE)
        ELSE [self |-> s1,
              ret |-> [NoRet EXCEPT !.op = "step", !.outcome = "return",
                                    !.measured = TRUE, !.clicked = TRUE,
                                    !.click = at, !.reward = reward,
                                    !.actions = _actions(s1.viewport),
                                    !.image = st.image,
                                    !.elements = st.elements]]

\* The answers a call reads before it fails at f (or returns, f = "none"):
\* an answer the call never reads is not drawn.
Reads(f, fs, S, default) == IF f \in fs THEN S ELSE {default}

Reset ==
    \E f \in ResetFailures :
    \E d \in Reads(f, {"coverage", "screenshot", "elements", "none"},
                   EnvDoms, dom) :
    \E b \in Reads(f, {"coverage", "screenshot", "elements", "none"},
                   EnvViewports, ZeroRect) :
    \E cm \in Reads(f, {"screenshot", "elements", "none"}, EnvCovMaps, <<>>) :
    \E raw \in Reads(f, {"elements", "none"}, EnvShots, <<0, 0>>) :
        LET io == [failAt |-> f, viewport |-> b, covMap |-> cm,
                   shot |-> raw, dom |-> d]
        IN  \E o \in {ResetOutcome(Self, io)} :
            /\ attrs' = o.self.attrs
            /\ viewport' = o.self.viewport
            /\ coverage' = o.self.coverage
            /\ ret' = o.ret
            /\ covMap' = IF o.ret.measured THEN cm ELSE covMap
            /\ hist' = IF o.ret.outcome = "return"
                       THEN [completed |-> TRUE, clean |-> TRUE,
                             actions |-> o.ret.actions,
                             reported |-> o.self.coverage]
                       ELSE [completed |-> hist.completed, clean |-> FALSE,
                             actions |-> <<>>, reported |-> 0]
            /\ shot' = IF o.ret.outcome = "return" THEN raw ELSE shot
            /\ dom' = IF o.ret.outcome = "return" THEN d ELSE dom

Step ==
    \E a \in StepActions, f \in StepFailures :
    \E cm \in Reads(f, {"screenshot", "elements", "none"}, EnvCovMaps, <<>>) :
    \E raw \in Reads(f, {"elements", "none"}, EnvShots, <<0, 0>>) :
    \E d \in Reads(f, {"none"}, EnvDoms, dom) :
        LET io == [failAt |-> f, covMap |-> cm, shot |-> raw, dom |-> d]
        IN  \E o \in {StepOutcome(Self, a, io)} :
            /\ attrs' = o.self.attrs
            /\ viewport' = o.self.viewport
            /\ coverage' = o.self.coverage
            /\ ret' = o.ret
            /\ covMap' = IF o.ret.measured THEN cm ELSE covMap
            /\ hist' = IF /\ o.ret.outcome = "return"
                          /\ hist.clean
                          /\ hist.reported = coverage
                       THEN [hist EXCEPT !.reported = @ + o.ret.reward]
                       ELSE hist
            /\ shot' = IF o.ret.outcome = "return" THEN raw ELSE shot
            /\ dom' = IF o.ret.outcome = "return" THEN d ELSE dom

\* __init__: no browser, page, viewport or coverage yet.
Init ==
    /\ attrs = {}
    /\ viewport = ZeroRect
    /\ coverage = 0
    /\ covMap = <<>>
    /\ shot = <<0, 0>>
    /\ dom = CHOOSE d \in EnvDoms : TRUE
    /\ ret = NoRet
    /\ hist = [completed |-> FALSE, clean |-> FALSE, actions |-> <<>>,
               reported |-> 0]

Next == Reset \/ Step

Spec == Init /\ [][Next]_vars

-----------------------------------------------------------------------------
(* The pure functions on their own: each specification draws an input and
   applies the function to it. *)

Idle == /\ attrs = {}
        /\ coverage = 0
        /\ ret = NoRet
        /\ hist = [completed |-> FALSE, clean |-> FALSE, actions |-> <<>>,
                   reported |-> 0]

\* CoverageReporter(covMap).summary()
InitCov == /\ Idle
           /\ covMap \in CoverageMaps
           /\ viewport = ZeroRect
           /\ shot = <<0, 0>>
           /\ dom = CHOOSE d \in EnvDoms : TRUE

Summarize ==
    /\ ret.op = "none"
    /\ LET r == summary(covMap)
       IN  ret' = [NoRet EXCEPT !.op = "summary",
                                !.outcome = IF r.ok THEN "return" ELSE "raise",
                                !.error = r.error,
                                !.value = r.value]
    /\ UNCHANGED <<attrs, viewport, coverage, covMap, shot, dom, hist>>

NextCov == Summarize

SpecCov == InitCov /\ [][NextCov]_vars

\* _actions() on a stored viewport
GridViewports == {Rect(0, 0, w, h) : w \in 0..(MaxCells * Cell + SubPixel),
                                     h \in 0..(MaxCells * Cell + SubPixel)}

InitGrid == /\ Idle
            /\ viewport \in GridViewports
            /\ covMap = <<>>
            /\ shot = <<0, 0>>
            /\ dom = CHOOSE d \in EnvDoms : TRUE

GenerateActions ==
    /\ ret.op = "none"
    /\ ret' = [NoRet EXCEPT !.op = "_actions", !.outcome = "return",
                            !.actions = _actions(viewport)]
    /\ UNCHANGED <<attrs, viewport, coverage, covMap, shot, dom, hist>>

NextGrid == GenerateActions

SpecGrid == InitGrid /\ [][NextGrid]_vars

\* _elements() on a document
InitDom == /\ Idle
           /\ \E k \in 1..MaxNodes : dom \in DomsOfSize(k)
           /\ viewport = ZeroRect
           /\ covMap = <<>>
           /\ shot = <<0, 0>>

Enumerate ==
    /\ ret.op = "none"
    /\ LET r == _elements(dom, TRUE)
       IN  ret' = [NoRet EXCEPT !.op = "_elements",
                                !.outcome = IF r.ok THEN "return" ELSE "raise",
                                !.error = r.error,
                                !.elements = r.value]
    /\ UNCHANGED <<attrs, viewport, coverage, covMap, shot, dom, hist>>

NextDom == Enumerate

SpecDom == InitDom /\ [][NextDom]_vars

-----------------------------------------------------------------------------
(* Properties *)

Returned(op) == ret.op = op /\ ret.outcome = "return"

Raised(op) == ret.op = op /\ ret.outcome = "raise"

\* The statement entries of a coverage map, and those never run.
Entries(cm) == UNION {{<<f, i>> : i \in DOMAIN cm[f]} : f \in DOMAIN cm}

NeverRun(cm) == {e \in Entries(cm) : cm[e[1]][e[2]] = 0}

\* C1: a step() that returns has returned exactly the ratio measured after
\* the click minus the ratio stored before the call (no clamping: zero when
\* equal, negative when the measured ratio is lower), and has stored the
\* measured ratio.
C1_StepRewardIsDelta ==
    [][(ret'.op = "step" /\ ret'.outcome = "return") =>
          LET T == Cardinality(Entries(covMap'))
              N == Cardinality(NeverRun(covMap'))
          IN  /\ T > 0
              /\ (ret'.reward + coverage) * T = (T - N) * Scale
              /\ coverage' = ret'.reward + coverage]_vars

C1_Witness ==
    /\ Returned("step")
    /\ ret.reward < 0
    /\ hist.completed

\* C2: _actions() is the row-major grid (rows outer, columns inner) of the
\* centres of the whole cells of the viewport: floor(w/c) * floor(h/c)
\* actions, partial cells dropped, none when w < c or h < c.
C2_ActionsAreTheGrid ==
    Returned("_actions") =>
        LET cols == viewport.width \div Cell
            rows == viewport.height \div Cell
        IN  /\ Len(ret.actions) = cols * rows
            /\ \A row \in 1..rows, col \in 1..cols :
                  ret.actions[(row - 1) * cols + col] =
                      [x |-> col * CELL_SIZE - CELL_SIZE \div 2,
                       y |-> row * CELL_SIZE - CELL_SIZE \div 2,
                       type |-> "click"]
            /\ (viewport.width < Cell \/ viewport.height < Cell)
                  => ret.actions = <<>>

C2_Witness ==
    /\ Returned("_actions")
    /\ Len(ret.actions) = 2
    /\ viewport.height >= 2 * Cell
    /\ viewport.width % Cell # 0
    /\ ret.actions[2].y > ret.actions[1].y

\* C3: on a map with at least one statement, summary() is 1 - N/T, with T
\* the statement entries of all files and N those whose count is 0; it lies
\* in [0, 1], is 1 when no count is zero and 0 when every count is zero.
C3_SummaryIsCoveredFraction ==
    LET T == Cardinality(Entries(covMap))
        N == Cardinality(NeverRun(covMap))
    IN  (ret.op = "summary" /\ T > 0) =>
            /\ ret.outcome = "return"
            /\ ret.value * T = (T - N) * Scale
            /\ ret.value \in 0..Scale
            /\ (N = 0 => ret.value = Scale)
            /\ (N = T => ret.value = 0)

C3_Witness ==
    /\ Returned("summary")
    /\ Len(covMap) = 2
    /\ \A f \in DOMAIN covMap : NeverRun(<<covMap[f]>>) # {}
    /\ ret.value \notin {0, Scale}

\* C4: a reset() or step() that reads a coverage map with no statement at
\* all raises the error of the division by zero and stores no coverage
\* value from it.
C4_NoStatementsRaises ==
    [][(ret'.op \in {"reset", "step"} /\ ret'.measured
            /\ Entries(covMap') = {}) =>
          /\ ret'.outcome = "raise"
          /\ ret'.error = "ZeroDivisionError"
          /\ coverage' = coverage
          /\ ("coverage" \in attrs') = ("coverage" \in attrs)]_vars

C4_Witness ==
    /\ Raised("step")
    /\ ret.measured
    /\ covMap = <<<<>>>>
    /\ ret.error = "ZeroDivisionError"
    /\ coverage # 0

\* C5: a State's image has exactly the viewport's height and width (a
\* viewport that reaches beyond the raw screenshot fails, it is not
\* clipped).
C5_ImageHasViewportSize ==
    (ret.op \in {"reset", "step"} /\ ret.outcome = "return") =>
        ret.image = <<Px(viewport.height), Px(viewport.width)>>

\* C6: a step() on an environment on which no reset() has returned fails,
\* injects no click and stores nothing.
C6_StepNeedsReset ==
    [][(ret'.op = "step" /\ ~hist.completed) =>
          /\ ret'.outcome = "raise"
          /\ ~ret'.clicked
          /\ attrs' = attrs
          /\ viewport' = viewport
          /\ coverage' = coverage]_vars

\* C7: when the non-empty ids of a document are pairwise distinct, the
\* selectors of one _elements() call are pairwise distinct.
DistinctIds(d) == \A m, k \in 1..d.n : (m # k /\ d.id[m] # "") => d.id[m] # d.id[k]

PrecedingSiblings(d, e) == {m \in 1..d.n : d.parent[m] = d.parent[e] /\ m < e}

RECURSIVE SelectorOf(_, _)
SelectorOf(d, e) ==
    IF d.id[e] # "" THEN "#" \o d.id[e]
    ELSE IF d.parent[e] = 0 THEN Lower(d.tag[e])
    ELSE SelectorOf(d, d.parent[e]) \o " > " \o Lower(d.tag[e])
            \o ":nth-child("
            \o ToString(1 + Cardinality(PrecedingSiblings(d, e))) \o ")"

\* The elements under p, in document order.
RECURSIVE Under(_, _)
Under(d, p) ==
    LET kids == {m \in 1..d.n : d.parent[m] = p}
        RECURSIVE InOrder(_)
        InOrder(S) == IF S = {} THEN <<>>
                      ELSE LET m == CHOOSE x \in S : \A y \in S : x <= y
                           IN  <<m>> \o Under(d, m) \o InOrder(S \ {m})
    IN  InOrder(kids)

C8_SelectorIsThePath ==
    Returned("_elements") =>
        LET nodes == Under(dom, dom.root)
        IN  /\ Len(ret.elements) = Len(nodes)
            /\ \A i \in DOMAIN nodes :
                  ret.elements[i].selector = SelectorOf(dom, nodes[i])

C8_Witness ==
    /\ Returned("_elements")
    /\ \E i \in DOMAIN ret.elements :
          ret.elements[i].selector = "#a > span:nth-child(2)"
    /\ dom.root = 1
    /\ dom.id[1] = ""

\* C9: step() leaves the stored viewport as it is, and after a reset() that
\* returned, every step() that returns returns the action set that reset()
\* returned.
C9_StepKeepsViewport ==
    [][ret'.op = "step" =>
          /\ viewport' = viewport
          /\ ("viewport" \in attrs') = ("viewport" \in attrs)
          /\ (hist.clean /\ ret'.outcome = "return")
                => ret'.actions = hist.actions]_vars

C9_Witness ==
    /\ Returned("step")
    /\ hist.clean
    /\ Len(ret.actions) = 2
    /\ ret.actions = hist.actions
    /\ ret.reward # 0

\* C10: after a reset() that returned and any steps since, returned or
\* raised, the stored coverage is that reset's baseline plus the rewards the
\* steps returned.
C10_CoverageIsReported ==
    hist.clean => coverage = hist.reported

====
